---- MODULE Spec2Model ----
(***************************************************************************)
(* Model of electric-field.py: the interaction loop of main() (the charge  *)
(* list, the active sign, the drag index, the mode flag) and the field     *)
(* line tracer trace_field_line().                                         *)
(*                                                                         *)
(* Pointer and event positions are whole pixels, as in pygame, and float() *)
(* of an integer is exact.  List indices are 0-based as in the source; the *)
(* list element at index i is charges[i + 1].  A mouse button press        *)
(* happens where the pointer is, so event.pos is the pointer position that *)
(* the motion events before it have set.  Events that match no branch and  *)
(* change nothing (other buttons, other keys) are left out.                *)
(*                                                                         *)
(* Three specifications: Spec is the loop with the pointer moving over     *)
(* Pos and active_sign driven through Signs; SpecSign is the loop with the *)
(* pointer parked and active_sign driven over its whole range; SpecTrace   *)
(* is one call of trace_field_line.                                        *)
(***************************************************************************)
EXTENDS Integers, Sequences, FiniteSets, TLC

(***************************************************************************)
(* Program constants.                                                      *)
(***************************************************************************)
K == 1000
SOFT == 100
WIDTH == 1200
HEIGHT == 800
\* trace_field_line's default step.
STEP == 4
HIT_RADIUS == 16
REMOVE_BEST == 400
SIGN_MIN == -10
SIGN_MAX == 10
\* Python's None for idx, nearest and dragging (indices are never negative).
None == -1

(***************************************************************************)
(* Bounds of the model.                                                    *)
(***************************************************************************)
\* Charges a session creates at most (a creating press is not offered beyond).
MaxCharges == 2

\* max_steps arguments tried: 1..MaxTraceSteps.
MaxTraceSteps == 4
\* Units per 1.0 of field strength: the floats of compute_field_at are kept in fixed
\* point, rounded toward zero.
FIX == 1000

\* Pointer positions the session visits.  Squared distances between them:
\*   P0-P3 = P2-P3 = 100 (< 256, a tie), P1-P3 = 164, P0-P1 = 256 (exactly 16px),
\*   P1-P2 = 272 (between 16px and 20px), P0-P2 = 400 (exactly 20px),
\*   P4 is farther than 20px from all the others.
P0 == <<100, 100>>
P1 == <<116, 100>>
P2 == <<112, 116>>
P3 == <<106, 108>>
P4 == <<140, 100>>
Pos == {P0, P1, P2, P3, P4}
\* The pointer parked at one point (the sign specification).
PosParked == {P0}
\* Values of active_sign the sign keys are driven through in Spec.
Signs == {0, 1}
AllSigns == (SIGN_MIN - 1)..(SIGN_MAX + 1)

VARIABLES
    charges,          \* list of Charge records
    active_sign,
    dragging,         \* None or a 0-based index
    field_line_mode,
    running,
    pointer,          \* the pointer position pygame reports (event.pos, mouse.get_pos())
    event,            \* the loop variable: the kind of the event handled last
    pc,               \* "events": draining the queue; "render": after the drag update;
                      \* "done": left the loop; "crashed": unhandled IndexError
    stale_drag,       \* history: the clear key ran while a drag was active and neither
                      \* a release nor a primary press that hit has happened since
    \* trace_field_line(x, y, charges, step, max_steps): arguments and locals
    seed,             \* <<x, y>>
    line_charges,     \* the charges argument
    max_steps,
    points,
    direction,
    px,
    py,
    iter,             \* iterations of "for _ in range(max_steps)" begun in this direction
    tpc               \* "idle": not called; "inner": at the head of the inner loop;
                      \* "returned"

mainVars == <<charges, active_sign, dragging, field_line_mode, running, pointer, event, pc, stale_drag>>
traceVars == <<seed, line_charges, max_steps, points, direction, px, py, iter, tpc>>
vars == <<mainVars, traceVars>>

(***************************************************************************)
(* Charge and the pure parts of the handlers.                              *)
(***************************************************************************)
\* A charge made without its sign.
ChargeUnit(x, y, q) == [x |-> x, y |-> y, q |-> 1]

Charge(x, y, q) == [x |-> x, y |-> y, q |-> q]

Dist2(c, mx, my) == (c.x - mx) * (c.x - mx) + (c.y - my) * (c.y - my)

\* for i, c in enumerate(charges): if d2 < 16 * 16: idx = i; break
RECURSIVE HitFrom(_, _, _, _)
HitFrom(cs, i, mx, my) ==
    IF i >= Len(cs) THEN None
    ELSE IF Dist2(cs[i + 1], mx, my) < HIT_RADIUS * HIT_RADIUS THEN i
    ELSE HitFrom(cs, i + 1, mx, my)

\* The loop without its break: the last match wins.
HitTestNoBreak(cs, mx, my) ==
    LET hits == {i \in 0..(Len(cs) - 1) : Dist2(cs[i + 1], mx, my) < HIT_RADIUS * HIT_RADIUS}
    IN IF hits = {} THEN None ELSE CHOOSE m \in hits : \A n \in hits : n <= m

HitTest(cs, mx, my) == HitFrom(cs, 0, mx, my)

\* for i, c in enumerate(charges): d = ...; if d < best: best = d; nearest = i
RECURSIVE NearestFrom(_, _, _, _, _, _)
NearestFrom(cs, i, best, nearest, mx, my) ==
    IF i >= Len(cs) THEN nearest
    ELSE LET d == Dist2(cs[i + 1], mx, my) IN
         IF d < best THEN NearestFrom(cs, i + 1, d, i, mx, my)
         ELSE NearestFrom(cs, i + 1, best, nearest, mx, my)

\* The comparison d <= best: the last of the nearest wins, and 20px is in reach.
RECURSIVE NearestFromLe(_, _, _, _, _, _)
NearestFromLe(cs, i, best, nearest, mx, my) ==
    IF i >= Len(cs) THEN nearest
    ELSE LET d == Dist2(cs[i + 1], mx, my) IN
         IF d <= best THEN NearestFromLe(cs, i + 1, d, i, mx, my)
         ELSE NearestFromLe(cs, i + 1, best, nearest, mx, my)

NearestLe(cs, mx, my) == NearestFromLe(cs, 0, REMOVE_BEST, None, mx, my)

Nearest(cs, mx, my) == NearestFrom(cs, 0, REMOVE_BEST, None, mx, my)

\* charges.pop(k)
Pop(cs, k) == [j \in 1..(Len(cs) - 1) |-> IF j <= k THEN cs[j] ELSE cs[j + 1]]

Max(a, b) == IF a >= b THEN a ELSE b
Min(a, b) == IF a <= b THEN a ELSE b
\* The clamp without its upper limit.
ClampLowOnly(v) == Max(SIGN_MIN, v)

\* max(-10, min(10, v))
Clamp(v) == Max(SIGN_MIN, Min(SIGN_MAX, v))

\* The update without its second assignment.
SetPosXOnly(cs, d, mx, my) == [cs EXCEPT ![d + 1].x = mx]

\* charges[dragging].x = mx; charges[dragging].y = my
SetPos(cs, d, mx, my) == [cs EXCEPT ![d + 1].x = mx, ![d + 1].y = my]

(***************************************************************************)
(* Field computation (lines 38-51) in fixed point.  For a point and        *)
(* charges on one horizontal or vertical line the float computation is     *)
(* exact where it matters: the field is parallel to the line, Ex / mag is  *)
(* exactly 1.0 or -1.0 and every traced position is a whole pixel.  Off    *)
(* such a line the stepped position is rounded toward the old one.         *)
(***************************************************************************)
\* Division rounded toward zero.
Quot(a, b) == IF a < 0 THEN -((-a) \div b) ELSE a \div b
\* math.sqrt, rounded down, by bisection; the midpoint is bound as a value
\* (m \in {...}) so that it is computed once at each level.
RECURSIVE IsqrtIn(_, _, _)
IsqrtIn(n, lo, hi) ==
    IF lo >= hi THEN lo
    ELSE CHOOSE r \in {IF m * m <= n THEN IsqrtIn(n, m, hi) ELSE IsqrtIn(n, lo, m - 1) :
                         m \in {(lo + hi + 1) \div 2}} : TRUE
Isqrt(n) == CHOOSE r \in {IsqrtIn(v, 0, IF v < 46340 THEN v ELSE 46340) : v \in {n}} : TRUE

RECURSIVE FieldFrom(_, _, _, _, _, _)
FieldFrom(cs, i, Ex, Ey, ppx, ppy) ==
    IF i > Len(cs) THEN <<Ex, Ey>>
    ELSE LET c == cs[i]
             dx == ppx - c.x
             dy == ppy - c.y
             r2 == dx * dx + dy * dy + SOFT * SOFT
             r3 == r2 * Isqrt(r2)
         IN FieldFrom(cs, i + 1, Ex + Quot(K * c.q * dx * FIX, r3),
                      Ey + Quot(K * c.q * dy * FIX, r3), ppx, ppy)

compute_field_at(ppx, ppy, cs) == FieldFrom(cs, 1, 0, 0, ppx, ppy)

magnitude(a, b) == Isqrt(a * a + b * b)

\* Only the upper limits are tested.
OutOfViewUpperOnly(ppx, ppy) == ppx > WIDTH \/ ppy > HEIGHT

\* if px < 0 or px > WIDTH or py < 0 or py > HEIGHT
OutOfView(ppx, ppy) == ppx < 0 \/ ppx > WIDTH \/ ppy < 0 \/ ppy > HEIGHT

\* The position after one step from <<px, py>>: px += direction * (Ex / mag) * step.
Stepped(ppx, ppy, dir, cs) ==
    LET E == compute_field_at(ppx, ppy, cs)
        mag == magnitude(E[1], E[2])
    IN <<ppx + Quot(dir * E[1] * STEP, mag), ppy + Quot(dir * E[2] * STEP, mag)>>

FieldIsZero(ppx, ppy, cs) ==
    LET E == compute_field_at(ppx, ppy, cs) IN magnitude(E[1], E[2]) = 0

(***************************************************************************)
(* The state after construction (lines 150-154).                           *)
(***************************************************************************)
InitOn(P) ==
    /\ charges = <<>>
    /\ active_sign = 1
    /\ dragging = None
    /\ field_line_mode = FALSE
    /\ running = TRUE
    /\ pointer \in P
    /\ event = "none"
    /\ pc = "events"
    /\ stale_drag = FALSE
    /\ seed = <<0, 0>>
    /\ line_charges = <<>>
    /\ max_steps = 0
    /\ points = <<>>
    /\ direction = 1
    /\ px = 0
    /\ py = 0
    /\ iter = 0
    /\ tpc = "idle"

(***************************************************************************)
(* One event of the queue (lines 157-199).                                 *)
(***************************************************************************)
\* MOUSEMOTION matches no branch; pygame's pointer state follows it.
MouseMotion(p) ==
    /\ pc = "events"
    /\ event' = "MOUSEMOTION"
    /\ pointer' = p
    /\ UNCHANGED <<charges, active_sign, dragging, field_line_mode, running, pc, stale_drag, traceVars>>

\* MOUSEBUTTONDOWN, button 1.
PrimaryDown ==
    /\ pc = "events"
    /\ event' = "MOUSEBUTTONDOWN 1"
    /\ LET mx == pointer[1]
           my == pointer[2]
           idx == HitTest(charges, mx, my)
       IN IF idx # None
          THEN /\ dragging' = idx
               /\ stale_drag' = FALSE
               /\ UNCHANGED charges
          ELSE /\ Len(charges) < MaxCharges
               /\ charges' = Append(charges, Charge(mx, my, active_sign))
               /\ UNCHANGED <<dragging, stale_drag>>
    /\ UNCHANGED <<active_sign, field_line_mode, running, pointer, pc, traceVars>>

\* MOUSEBUTTONDOWN, button 3.
SecondaryDown ==
    /\ pc = "events"
    /\ event' = "MOUSEBUTTONDOWN 3"
    /\ LET mx == pointer[1]
           my == pointer[2]
           nearest == Nearest(charges, mx, my)
       IN charges' = IF nearest # None THEN Pop(charges, nearest) ELSE charges
    /\ UNCHANGED <<active_sign, dragging, field_line_mode, running, pointer, pc, stale_drag, traceVars>>

\* MOUSEBUTTONUP.
MouseUp ==
    /\ pc = "events"
    /\ event' = "MOUSEBUTTONUP"
    /\ dragging' = None
    /\ stale_drag' = FALSE
    /\ UNCHANGED <<charges, active_sign, field_line_mode, running, pointer, pc, traceVars>>

\* KEYDOWN K_EQUALS / K_PLUS (delta = 1) and K_MINUS (delta = -1); the session drives
\* active_sign through S only.
KeySign(delta, S) ==
    /\ pc = "events"
    /\ event' = (IF delta = 1 THEN "K_PLUS" ELSE "K_MINUS")
    /\ Clamp(active_sign + delta) \in S
    /\ active_sign' = Clamp(active_sign + delta)
    /\ UNCHANGED <<charges, dragging, field_line_mode, running, pointer, pc, stale_drag, traceVars>>

\* KEYDOWN K_r.
KeyR ==
    /\ pc = "events"
    /\ event' = "K_r"
    /\ charges' = <<>>
    /\ stale_drag' = (dragging # None)
    /\ UNCHANGED <<active_sign, dragging, field_line_mode, running, pointer, pc, traceVars>>

\* KEYDOWN K_f.
KeyF ==
    /\ pc = "events"
    /\ event' = "K_f"
    /\ field_line_mode' = ~field_line_mode
    /\ UNCHANGED <<charges, active_sign, dragging, running, pointer, pc, stale_drag, traceVars>>

\* QUIT, and KEYDOWN K_ESCAPE.
Quit ==
    /\ pc = "events"
    /\ event' = "QUIT"
    /\ running' = FALSE
    /\ UNCHANGED <<charges, active_sign, dragging, field_line_mode, pointer, pc, stale_drag, traceVars>>

(***************************************************************************)
(* The rest of the tick (lines 201-256).                                   *)
(***************************************************************************)
\* The queue is drained; the per-frame drag update.  An index past the end of a
\* non-empty list raises IndexError, which nothing catches.
DragUpdate ==
    /\ pc = "events"
    /\ IF dragging # None /\ charges # <<>>
       THEN IF dragging < Len(charges)
            THEN /\ charges' = SetPos(charges, dragging, pointer[1], pointer[2])
                 /\ pc' = "render"
            ELSE /\ pc' = "crashed"
                 /\ UNCHANGED charges
       ELSE /\ pc' = "render"
            /\ UNCHANGED charges
    /\ UNCHANGED <<active_sign, dragging, field_line_mode, running, pointer, event, stale_drag, traceVars>>

\* Grid sampling and drawing read charges and change nothing; then the loop test.
Render ==
    /\ pc = "render"
    /\ pc' = IF running THEN "events" ELSE "done"
    /\ UNCHANGED <<charges, active_sign, dragging, field_line_mode, running, pointer, event, stale_drag, traceVars>>

Next ==
    \/ \E p \in Pos : MouseMotion(p)
    \/ PrimaryDown
    \/ SecondaryDown
    \/ MouseUp
    \/ \E delta \in {1, -1} : KeySign(delta, Signs)
    \/ KeyR
    \/ KeyF
    \/ Quit
    \/ DragUpdate
    \/ Render

Init == InitOn(Pos)

Spec == Init /\ [][Next]_vars

\* The pointer stays parked at one point and the sign keys run through the whole
\* range: the same handlers, without pointer motion.
NextSign ==
    \/ PrimaryDown
    \/ SecondaryDown
    \/ MouseUp
    \/ \E delta \in {1, -1} : KeySign(delta, AllSigns)
    \/ KeyR
    \/ KeyF
    \/ Quit
    \/ DragUpdate
    \/ Render

InitSign == InitOn(PosParked)

SpecSign == InitSign /\ [][NextSign]_vars

(***************************************************************************)
(* trace_field_line (lines 114-137), called on its own.                    *)
(***************************************************************************)
\* Seeds and charge lists the tracer is called with.
TraceSeeds == {<<112, 100>>, <<88, 100>>, <<4, 100>>, <<-4, 100>>, <<100, 796>>, <<100, 112>>}
TraceCharges ==
    { <<>>,
      <<Charge(100, 100, 1)>>,
      <<Charge(100, 100, -1)>>,
      <<Charge(100, 100, 0)>>,
      <<Charge(100, 100, 1), Charge(140, 100, 1)>>,
      <<Charge(100, 100, 1), Charge(140, 100, -1)>>,
      <<Charge(16, 100, 1)>>,
      <<Charge(100, 784, 1)>> }

InitTrace ==
    /\ charges = <<>>
    /\ active_sign = 1
    /\ dragging = None
    /\ field_line_mode = FALSE
    /\ running = TRUE
    /\ pointer = P0
    /\ event = "none"
    /\ pc = "events"
    /\ stale_drag = FALSE
    /\ seed \in TraceSeeds
    /\ line_charges \in TraceCharges
    /\ max_steps \in 1..MaxTraceSteps
    /\ points = <<>>
    /\ direction = 1
    /\ px = 0
    /\ py = 0
    /\ iter = 0
    /\ tpc = "called"

\* points = [(x, y)]; the first direction; px, py = x, y.
TraceEnter ==
    /\ tpc = "called"
    /\ points' = <<seed>>
    /\ direction' = 1
    /\ px' = seed[1]
    /\ py' = seed[2]
    /\ iter' = 0
    /\ tpc' = "inner"
    /\ UNCHANGED <<seed, line_charges, max_steps, mainVars>>

\* The inner loop is left: the second direction starts from the seed, or the function
\* returns.
LeaveDirection(npx, npy) ==
    IF direction = 1
    THEN /\ direction' = -1
         /\ px' = seed[1]
         /\ py' = seed[2]
         /\ iter' = 0
         /\ tpc' = "inner"
    ELSE /\ px' = npx
         /\ py' = npy
         /\ tpc' = "returned"
         /\ UNCHANGED <<direction, iter>>

\* One iteration that appends the stepped position.
TraceStep ==
    /\ tpc = "inner"
    /\ iter < max_steps
    /\ ~FieldIsZero(px, py, line_charges)
    /\ LET n == Stepped(px, py, direction, line_charges) IN
       /\ ~OutOfView(n[1], n[2])
       /\ px' = n[1]
       /\ py' = n[2]
       /\ points' = Append(points, n)
    /\ iter' = iter + 1
    /\ UNCHANGED <<seed, line_charges, max_steps, direction, tpc, mainVars>>

\* One iteration that breaks: mag == 0.
TraceBreakZero ==
    /\ tpc = "inner"
    /\ iter < max_steps
    /\ FieldIsZero(px, py, line_charges)
    /\ LeaveDirection(px, py)
    /\ UNCHANGED <<seed, line_charges, max_steps, points, mainVars>>

\* One iteration that breaks: the stepped position is outside the viewport.
TraceBreakExit ==
    /\ tpc = "inner"
    /\ iter < max_steps
    /\ ~FieldIsZero(px, py, line_charges)
    /\ LET n == Stepped(px, py, direction, line_charges) IN
       /\ OutOfView(n[1], n[2])
       /\ LeaveDirection(n[1], n[2])
    /\ UNCHANGED <<seed, line_charges, max_steps, points, mainVars>>

\* range(max_steps) is exhausted.
TraceRangeEnd ==
    /\ tpc = "inner"
    /\ iter >= max_steps
    /\ LeaveDirection(px, py)
    /\ UNCHANGED <<seed, line_charges, max_steps, points, mainVars>>

NextTrace ==
    \/ TraceEnter
    \/ TraceStep
    \/ TraceBreakZero
    \/ TraceBreakExit
    \/ TraceRangeEnd

\* The function runs on: nothing suspends a sequential loop.
SpecTrace == InitTrace /\ [][NextTrace]_vars /\ WF_vars(NextTrace)

(***************************************************************************)
(* Claims about the interaction loop.                                      *)
(***************************************************************************)
\* Indices (0-based) of the charges whose squared distance to the pointer is below d2.
Below(cs, p, d2) == {i \in 0..(Len(cs) - 1) : Dist2(cs[i + 1], p[1], p[2]) < d2}
SetMin(S) == CHOOSE m \in S : \A n \in S : m <= n
\* The first index (0-based) among those nearest to the pointer.
FirstNearest(cs, p) ==
    SetMin({i \in 0..(Len(cs) - 1) :
              \A j \in 0..(Len(cs) - 1) :
                  Dist2(cs[i + 1], p[1], p[2]) <= Dist2(cs[j + 1], p[1], p[2])})
ValidDrag == dragging # None /\ dragging < Len(charges)

\* C1: whatever events a tick drains, the per-frame drag update never meets a drag
\* index outside the charge list as a fatal condition: the session never aborts on it.
C1_NoFatalDragIndex == pc # "crashed"

\* C2: once the clear key has emptied the list under an active drag, the per-frame
\* drag update overwrites no charge until a primary press hits a charge again.
C2_ClearEndsDrag == [][(stale_drag /\ DragUpdate) => charges' = charges]_vars

\* C3 as stated: a primary press within 16px (at most 16px) of a charge begins a drag
\* on the first such charge and leaves the list as it was.
C3_WithinInclusive ==
    [][(PrimaryDown /\ Below(charges, pointer, HIT_RADIUS * HIT_RADIUS + 1) # {})
          => /\ charges' = charges
             /\ dragging' = SetMin(Below(charges, pointer, HIT_RADIUS * HIT_RADIUS + 1))]_vars

\* C3 amended: a primary press strictly less than 16px from a charge begins a drag on
\* the first such charge in list order and leaves the list as it was.
C3_HitBeginsDrag ==
    [][(PrimaryDown /\ Below(charges, pointer, HIT_RADIUS * HIT_RADIUS) # {})
          => /\ charges' = charges
             /\ dragging' = SetMin(Below(charges, pointer, HIT_RADIUS * HIT_RADIUS))]_vars

\* A primary press was the last event, two charges lie within 16px of it, neither at
\* the press position, and the first is the one dragged.
C3_Witness ==
    /\ event = "MOUSEBUTTONDOWN 1"
    /\ pc = "events"
    /\ Len(charges) = 2
    /\ Below(charges, pointer, HIT_RADIUS * HIT_RADIUS) = {0, 1}
    /\ Below(charges, pointer, 1) = {}
    /\ dragging = 0

\* C4: a primary press farther than 16px from every charge appends exactly one charge,
\* at the press position with magnitude active_sign, leaves the other charges as they
\* were and leaves the drag state as it was (None stays None).
C4_MissCreatesCharge ==
    [][(PrimaryDown /\ \A i \in 1..Len(charges) :
                         Dist2(charges[i], pointer[1], pointer[2]) > HIT_RADIUS * HIT_RADIUS)
          => /\ Len(charges') = Len(charges) + 1
             /\ \A i \in 1..Len(charges) : charges'[i] = charges[i]
             /\ charges'[Len(charges) + 1].x = pointer[1]
             /\ charges'[Len(charges) + 1].y = pointer[2]
             /\ charges'[Len(charges) + 1].q = active_sign
             /\ dragging' = dragging]_vars

\* A primary press was the last event and nothing is dragged, so the press hit nothing:
\* the charge at the press position, of magnitude 0 = active_sign, is the one it made,
\* after a charge of another magnitude more than 16px away.
C4_Witness ==
    /\ event = "MOUSEBUTTONDOWN 1"
    /\ pc = "events"
    /\ dragging = None
    /\ Len(charges) = 2
    /\ Dist2(charges[1], pointer[1], pointer[2]) > HIT_RADIUS * HIT_RADIUS
    /\ charges[2] = [x |-> pointer[1], y |-> pointer[2], q |-> active_sign]
    /\ charges[1].q # active_sign

\* C5 as stated: a secondary press removes nothing when no charge lies within 20px
\* (at most 20px); otherwise exactly the first of the nearest charges.
C5_WithinInclusive ==
    [][SecondaryDown
          => IF Below(charges, pointer, REMOVE_BEST + 1) = {}
             THEN charges' = charges
             ELSE charges' = Pop(charges, FirstNearest(charges, pointer))]_vars

\* C5 amended: a secondary press removes nothing when no charge lies strictly less than
\* 20px away (squared distance below 400); otherwise it removes exactly the first of
\* the nearest charges, the others keeping order, position and magnitude.
C5_RemovesNearest ==
    [][SecondaryDown
          => IF Below(charges, pointer, REMOVE_BEST) = {}
             THEN charges' = charges
             ELSE LET k == FirstNearest(charges, pointer) IN
                  /\ Len(charges') = Len(charges) - 1
                  /\ \A j \in 0..(Len(charges) - 1) :
                        /\ j < k => charges'[j + 1] = charges[j + 1]
                        /\ j > k => charges'[j] = charges[j + 1]]_vars

\* A secondary press was the last event and a charge still lies 10px from it: two
\* charges were in reach (both at 10px, a tie) and the press removed one of them.
C5_Witness ==
    /\ event = "MOUSEBUTTONDOWN 3"
    /\ pc = "events"
    /\ Len(charges) = 1
    /\ Dist2(charges[1], pointer[1], pointer[2]) = 100
    /\ <<charges[1].x, charges[1].y>> = P2

\* C6: active_sign stays in [-10, 10]; an increment at 10 and a decrement at -10 leave
\* it as it was, any other sign key moves it by one.
C6_ActiveSignClamped ==
    /\ [](active_sign \in SIGN_MIN..SIGN_MAX)
    /\ [][(KeySign(1, AllSigns)
             => active_sign' = (IF active_sign = SIGN_MAX THEN SIGN_MAX ELSE active_sign + 1))
          /\ (KeySign(-1, AllSigns)
             => active_sign' = (IF active_sign = SIGN_MIN THEN SIGN_MIN ELSE active_sign - 1))]_vars

\* The increment key was the last event and active_sign is at its maximum.
C6_Witness ==
    /\ event = "K_PLUS"
    /\ active_sign = SIGN_MAX
    /\ Len(charges) = 1
    /\ charges[1].q = SIGN_MIN

\* C7: every charge of the list has a magnitude other than zero.
C7_NonzeroMagnitude == \A i \in 1..Len(charges) : charges[i].q # 0

\* C9: a secondary press that removes another charge than the dragged one leaves the
\* drag on the same charge: the drag index follows the charge to its new place.
C9_DragFollowsCharge ==
    [][(SecondaryDown /\ ValidDrag /\ Nearest(charges, pointer[1], pointer[2]) # dragging)
          => LET k == Nearest(charges, pointer[1], pointer[2]) IN
             dragging' = IF k # None /\ k < dragging THEN dragging - 1 ELSE dragging]_vars

\* C10: when the drained tick leaves a drag on charge i, the drag update puts charge i
\* at the pointer, whatever the last event was, and changes nothing else; it is done
\* when the grid is sampled; with no drag the update changes no charge.
C10_DragBinding ==
    /\ [](pc = "render" /\ ValidDrag
            => /\ charges[dragging + 1].x = pointer[1]
               /\ charges[dragging + 1].y = pointer[2])
    /\ [][(DragUpdate /\ pc' = "render")
            => /\ Len(charges') = Len(charges)
               /\ \A j \in 1..Len(charges) :
                     IF ValidDrag /\ j = dragging + 1
                     THEN charges'[j] = [x |-> pointer[1], y |-> pointer[2], q |-> charges[j].q]
                     ELSE charges'[j] = charges[j]]_vars

\* The drag update has just run in a tick whose last event was no pointer motion: the
\* second of two charges is dragged and sits at the pointer, the first is elsewhere.
C10_Witness ==
    /\ pc = "render"
    /\ event = "K_f"
    /\ Len(charges) = 2
    /\ dragging = 1
    /\ <<charges[2].x, charges[2].y>> = pointer
    /\ <<charges[1].x, charges[1].y>> # pointer

(***************************************************************************)
(* Claims about the tracer.                                                *)
(***************************************************************************)
\* C8: trace_field_line returns; each direction begins at most max_steps iterations;
\* the polyline has at most 1 + 2 * max_steps points; an iteration that finds a zero
\* field or steps out of the viewport ends its direction and appends nothing, so no
\* point after the seed lies outside the viewport.
C8_TraceTerminates ==
    /\ [](/\ iter <= max_steps
          /\ Len(points) <= 1 + 2 * max_steps
          /\ \A j \in 2..Len(points) : /\ points[j][1] >= 0 /\ points[j][1] <= WIDTH
                                        /\ points[j][2] >= 0 /\ points[j][2] <= HEIGHT)
    /\ [][(/\ tpc = "inner"
           /\ iter < max_steps
           /\ \/ FieldIsZero(px, py, line_charges)
              \/ LET n == Stepped(px, py, direction, line_charges) IN
                 n[1] < 0 \/ n[1] > WIDTH \/ n[2] < 0 \/ n[2] > HEIGHT)
            => /\ points' = points
               /\ direction' = -1
               /\ (direction = -1 => tpc' = "returned")]_vars
    /\ <>(tpc = "returned")

\* The call has returned; the first direction left the viewport after one point on its
\* edge, the second ran all its max_steps iterations.
C8_Witness ==
    /\ tpc = "returned"
    /\ seed = <<4, 100>>
    /\ line_charges = <<Charge(16, 100, 1)>>
    /\ max_steps = 2
    /\ points = <<<<4, 100>>, <<0, 100>>, <<8, 100>>, <<12, 100>>>>

====
